---------------------------- MODULE Spec2Model ----------------------------
(***************************************************************************)
(* A model of get_yt_transcripts.py: the file splitting loop of the main   *)
(* script, get_transcript_for_video and get_videos_metadata.               *)
(*                                                                         *)
(* Each component has its own specification (SpecWriter, SpecTranscript,   *)
(* SpecMetadata); the variables of the other components stay at their      *)
(* idle values.  Remote calls and file operations are the environment:     *)
(* their outcomes are drawn with \E.                                       *)
(***************************************************************************)
EXTENDS Integers, Sequences, FiniteSets, TLC

VARIABLES
    \* ---- main script, file splitting loop (lines 378-585) ----
    pc,                       \* "loop" | "finally" | "done"
    total_videos,             \* len(video_ids); the videos are numbered 1..total_videos
    MAX_WORDS_PER_FILE,       \* the per-file word budget (configuration)
    header_words,             \* len(header.split()), the same for every file of a run
    current_video_number,     \* the loop variable i + 1 (0 before the first iteration)
    current_word_count,
    current_file_handle,      \* None or Open
    current_filename_temp,
    file_start_video_number,
    output_filenames,
    disk,                     \* the output directory: file name -> content
    entry_words,              \* history: entry_word_count of each processed video
    io_failures,              \* history: the kinds of file operations that failed
    write_failed_at,          \* history: the video whose append failed (0: none)
    \* ---- get_transcript_for_video (lines 255-326) ----
    t_pc,                     \* "off" | "list" | "select" | "fetch" | "done"
    languages,                \* the parameter: preferred language codes, in order
    transcript_list,          \* the tracks list_transcripts returned, as enumerated
    transcript,               \* the selected track: its index in transcript_list (0: None)
    found_lang,
    t_result,                 \* how the call ended: returned (text, status) or raised
    t_calls,                  \* history: the remote calls made, in order
    \* ---- get_videos_metadata (lines 200-252) ----
    m_pc,                     \* "off" | "batch" | "done"
    video_ids,                \* the parameter
    m_i,                      \* the loop variable i: where the current batch starts
    retries,
    metadata_dict,
    m_result,                 \* "none" | "returned" | "raised"
    m_batches,                \* history: batch_ids of every batch, in order
    m_outcomes,               \* history: per batch, the outcome of each attempt
    m_delivered,              \* history: the ids the successful responses held
    \* ---- get_all_video_ids_in_playlist (lines 146-197) ----
    p_pc,                     \* "off" | "page" | "done"
    playlist,                 \* the remote playlist: its video ids, in order
    page_size,                \* how many items the remote serves per page (<= maxResults)
    next_page_token,          \* NoToken, or where the next page starts
    pl_video_ids,             \* the local video_ids
    pl_retries,               \* the local retries
    p_result,                 \* "none" | "returned" | "raised"
    p_requests,               \* history: every page request, its token and outcome
    \* ---- format_video_entry (lines 58-87) ----
    f_pc,                     \* "off" | "call" | "done"
    f_metadata,               \* the metadata argument: has publishedAt, and its value
    f_result,                 \* what the call raised, and the "Published:" line
    \* ---- get_channel_upload_playlist_id and its call (lines 114-143, 353-357) ----
    c_pc,                     \* "off" | "call" | "returned" | "done"
    youtube,                  \* the service object, or None
    c_response,               \* history: what channels().list().execute() gave
    c_returned,               \* what the function returned, or the exception it let out
    c_main                    \* where main went after the call

writer_vars == <<pc, total_videos, MAX_WORDS_PER_FILE, header_words,
                 current_video_number, current_word_count, current_file_handle,
                 current_filename_temp, file_start_video_number, output_filenames,
                 disk, entry_words, io_failures, write_failed_at>>

transcript_vars == <<t_pc, languages, transcript_list, transcript, found_lang,
                     t_result, t_calls>>

metadata_vars == <<m_pc, video_ids, m_i, retries, metadata_dict, m_result,
                   m_batches, m_outcomes, m_delivered>>

playlist_vars == <<p_pc, playlist, page_size, next_page_token, pl_video_ids,
                   pl_retries, p_result, p_requests>>

format_vars == <<f_pc, f_metadata, f_result>>

channel_vars == <<c_pc, youtube, c_response, c_returned, c_main>>

vars == <<writer_vars, transcript_vars, metadata_vars, playlist_vars, format_vars,
          channel_vars>>

\* What the actions of one component leave alone.
not_writer_vars ==
    <<transcript_vars, metadata_vars, playlist_vars, format_vars, channel_vars>>
not_transcript_vars ==
    <<writer_vars, metadata_vars, playlist_vars, format_vars, channel_vars>>
not_metadata_vars ==
    <<writer_vars, transcript_vars, playlist_vars, format_vars, channel_vars>>
not_playlist_vars ==
    <<writer_vars, transcript_vars, metadata_vars, format_vars, channel_vars>>
not_format_vars ==
    <<writer_vars, transcript_vars, metadata_vars, playlist_vars, channel_vars>>
not_channel_vars ==
    <<writer_vars, transcript_vars, metadata_vars, playlist_vars, format_vars>>

\* ---------------------------------------------------------------- bounds
MaxVideos == 3
MaxBudget == 5
MaxHeaderWords == 2
MaxEntryWords == 3
MaxTracks == 2
MaxFragments == 2
MaxTextLen == 2
MaxVideoIds == 120
MaxPlaylistItems == 130
MaxSmallPlaylist == 3
MaxSmallPage == 2
MaxOutOfRange == 2
MaxItems == 2

\* ---------------------------------------------------------------- helpers
None == "None"
Open == "open"

Min(a, b) == IF a < b THEN a ELSE b

RECURSIVE SumSeq(_)
SumSeq(s) == IF s = <<>> THEN 0 ELSE Head(s) + SumSeq(Tail(s))

Last(s) == s[Len(s)]

\* get_ordinal(n): str(n) + suffix
get_ordinal(n) ==
    LET suffix == IF 11 <= (n % 100) /\ (n % 100) <= 13
                  THEN "th"
                  ELSE <<"th", "st", "nd", "rd", "th">>[Min(n % 10, 4) + 1]
    IN  ToString(n) \o suffix

\* ------------------------------------------------------------------ text
\* A string is a sequence of characters; the characters that matter are a
\* letter and a blank.
Chars == {"a", " "}

IsSpace(c) == c = " "

RECURSIVE SeqsUpTo(_, _)
SeqsUpTo(S, n) ==
    IF n = 0 THEN {<<>>}
    ELSE LET shorter == SeqsUpTo(S, n - 1)
         IN  shorter \cup {Append(q, x) : q \in shorter, x \in S}

\* str.split(): the maximal runs of non-blank characters
RECURSIVE split(_)
split(str) ==
    IF str = <<>> THEN <<>>
    ELSE IF IsSpace(Head(str)) THEN split(Tail(str))
    ELSE LET rest == split(Tail(str))
         IN  IF Len(str) >= 2 /\ ~IsSpace(str[2])
             THEN <<<<Head(str)>> \o Head(rest)>> \o Tail(rest)
             ELSE <<<<Head(str)>>>> \o rest

\* " ".join(parts)
RECURSIVE join(_)
join(parts) ==
    IF parts = <<>> THEN <<>>
    ELSE IF Len(parts) = 1 THEN Head(parts)
    ELSE Head(parts) \o <<" ">> \o join(Tail(parts))

\* An optional string: None, or a string.
NoneText == [present |-> FALSE, chars |-> <<>>]
Str(chars) == [present |-> TRUE, chars |-> chars]

\* Python truthiness of an optional string
Truthy(text) == text.present /\ text.chars # <<>>

\* ------------------------------------------------ get_transcript_for_video
PREFERRED_LANGUAGES == <<"en">>

LanguageCodes == {"en", "fr"}

\* A track of a video: its language code and whether it is machine generated.
\* A video has at most one manual and one generated track per language.
Tracks == [language : LanguageCodes, is_generated : BOOLEAN]

TrackLists ==
    {l \in SeqsUpTo(Tracks, MaxTracks) :
        \A i, j \in 1..Len(l) : i # j => l[i] # l[j]}

\* A fetched fragment's text attribute: missing (or None), or a string.
FragmentTexts == {NoneText} \cup {Str(c) : c \in SeqsUpTo(Chars, MaxTextLen)}

FragmentLists == SeqsUpTo(FragmentTexts, MaxFragments)

\* The exceptions the transcript API raises; all derive from Exception.
TranscriptsDisabled == "TranscriptsDisabled"
NoTranscriptFound == "NoTranscriptFound"
TranscriptExceptions == {TranscriptsDisabled, NoTranscriptFound, "VideoUnavailable"}

IsException(exc) == exc \in TranscriptExceptions

Returned(text, lang) == [kind |-> "return", text |-> text, lang |-> lang]
Raised(exc) == [kind |-> "raise", text |-> NoneText, lang |-> exc]
NoResult == [kind |-> "none", text |-> NoneText, lang |-> None]

\* the except clauses without the last one, `except Exception`
OuterHandlers_NoCatchAll(exc) ==
    IF exc = TranscriptsDisabled THEN Returned(NoneText, "Transcripts Disabled")
    ELSE IF exc = NoTranscriptFound THEN Returned(NoneText, "No Transcript Found")
    ELSE Raised(exc)

\* lines 318-326: the except clauses of the function's try block
OuterHandlers(exc) ==
    IF exc = TranscriptsDisabled THEN Returned(NoneText, "Transcripts Disabled")
    ELSE IF exc = NoTranscriptFound THEN Returned(NoneText, "No Transcript Found")
    ELSE IF IsException(exc) THEN Returned(NoneText, "Error: " \o exc)
    ELSE Raised(exc)

\* transcript_list.find_manually_created_transcript(codes) and
\* find_generated_transcript(codes), lines 264 and 269: the track of the
\* wanted kind in the first of the codes that has one (0: NoTranscriptFound)
FindTranscript(list, codes, generated) ==
    LET has(c) == \E i \in 1..Len(list) :
                      list[i].language = c /\ list[i].is_generated = generated
        hits == {n \in 1..Len(codes) : has(codes[n])}
    IN  IF hits = {} THEN 0
        ELSE LET first == CHOOSE n \in hits : \A m \in hits : n <= m
             IN  CHOOSE i \in 1..Len(list) :
                     list[i].language = codes[first] /\ list[i].is_generated = generated

\* the selection with the two preferred tiers swapped
SelectTrack_GeneratedFirst(list, codes) ==
    IF FindTranscript(list, codes, TRUE) # 0 THEN FindTranscript(list, codes, TRUE)
    ELSE IF FindTranscript(list, codes, FALSE) # 0 THEN FindTranscript(list, codes, FALSE)
    ELSE IF list # <<>> THEN 1
    ELSE 0

\* lines 263-287: the selected track (0: raise NoTranscriptFound)
SelectTrack(list, codes) ==
    IF FindTranscript(list, codes, FALSE) # 0 THEN FindTranscript(list, codes, FALSE)
    ELSE IF FindTranscript(list, codes, TRUE) # 0 THEN FindTranscript(list, codes, TRUE)
    ELSE IF list # <<>> THEN 1
    ELSE 0

\* lines 298-308: the cleaned text of every fragment whose text is truthy
RECURSIVE full_transcript_parts(_)
full_transcript_parts(fetched) ==
    IF fetched = <<>> THEN <<>>
    ELSE LET text == Head(fetched)
             rest == full_transcript_parts(Tail(fetched))
         IN  IF Truthy(text) THEN <<join(split(text.chars))>> \o rest ELSE rest

\* lines 290-316: the result for the fetched fragments
TranscriptText(fetched, lang) ==
    IF fetched = <<>> THEN Returned(NoneText, lang)
    ELSE IF full_transcript_parts(fetched) = <<>> THEN Returned(NoneText, lang)
    ELSE Returned(Str(join(full_transcript_parts(fetched))), lang)

\* A remote call as the history records it: what was called, how it ended
\* ("ok" or the exception), and the fragments a fetch returned.
Call(what, outcome, fetched) == [call |-> what, outcome |-> outcome, fetched |-> fetched]

\* line 258: YouTubeTranscriptApi.list_transcripts(video_id)
ListTranscripts ==
    /\ t_pc = "list"
    /\ \/ \E list \in TrackLists :
            /\ t_calls' = Append(t_calls, Call("list", "ok", <<>>))
            /\ transcript_list' = list
            /\ t_pc' = "select"
            /\ UNCHANGED t_result
       \/ \E exc \in TranscriptExceptions :
            /\ t_calls' = Append(t_calls, Call("list", exc, <<>>))
            /\ t_result' = OuterHandlers(exc)
            /\ t_pc' = "done"
            /\ UNCHANGED transcript_list
    /\ UNCHANGED <<languages, transcript, found_lang>>
    /\ UNCHANGED not_transcript_vars

\* lines 259-287: select the track by tiers
SelectTranscript ==
    /\ t_pc = "select"
    /\ LET i == SelectTrack(transcript_list, languages)
       IN  IF i # 0
           THEN /\ transcript' = i
                /\ found_lang' = transcript_list[i].language
                /\ t_pc' = "fetch"
                /\ UNCHANGED t_result
           ELSE /\ t_result' = OuterHandlers(NoTranscriptFound)
                /\ t_pc' = "done"
                /\ UNCHANGED <<transcript, found_lang>>
    /\ UNCHANGED <<languages, transcript_list, t_calls>>
    /\ UNCHANGED not_transcript_vars

\* lines 290-316: transcript.fetch() and the joining of the fragments
FetchTranscript ==
    /\ t_pc = "fetch"
    /\ t_pc' = "done"
    /\ \/ \E fetched \in FragmentLists :
            /\ t_calls' = Append(t_calls, Call("fetch", "ok", fetched))
            /\ t_result' = TranscriptText(fetched, found_lang)
       \/ \E exc \in TranscriptExceptions :
            /\ t_calls' = Append(t_calls, Call("fetch", exc, <<>>))
            /\ t_result' = OuterHandlers(exc)
    /\ UNCHANGED <<languages, transcript_list, transcript, found_lang>>
    /\ UNCHANGED not_transcript_vars

\* get_transcript_for_video is not running.
TranscriptOff ==
    /\ t_pc = "off"
    /\ languages = <<>>
    /\ transcript_list = <<>>
    /\ transcript = 0
    /\ found_lang = None
    /\ t_result = NoResult
    /\ t_calls = <<>>

\* line 255: the call, with the languages main passes (line 420) or another list
TranscriptStart ==
    /\ t_pc = "list"
    /\ languages \in {PREFERRED_LANGUAGES, <<"fr", "en">>}
    /\ transcript_list = <<>>
    /\ transcript = 0
    /\ found_lang = None
    /\ t_result = NoResult
    /\ t_calls = <<>>

\* ----------------------------------------------------- get_videos_metadata
\* lines 207-208: range(0, len(video_ids), 50) and video_ids[i : i + 50]
BatchSize == 50

\* line 205
max_retries == 3

HttpError == "HttpError"

\* What request.execute() can raise; all derive from Exception.
MetadataExceptions == {HttpError, "TimeoutError"}

\* The values of metadata_dict: a metadata record, or an error marker.
MetadataRecord == [kind |-> "metadata", error |-> None]
ErrorMarker(text) == [kind |-> "error", error |-> text]

\* line 208: batch_ids = video_ids[i : i + 50]
BatchIds(ids, i) == SubSeq(ids, i + 1, Min(i + BatchSize, Len(ids)))

Range(seq) == {seq[n] : n \in 1..Len(seq)}

\* lines 215-223: record the metadata of every item of the response
RecordItems(dict, items) ==
    [id \in DOMAIN dict \cup items |->
        IF id \in items THEN MetadataRecord ELSE dict[id]]

\* the marking without the test `if vid not in metadata_dict`
MarkBatchFailed_Overwrite(dict, batch_ids, text) ==
    [id \in DOMAIN dict \cup Range(batch_ids) |->
        IF id \in Range(batch_ids) THEN ErrorMarker(text) ELSE dict[id]]

\* lines 237-241 and 245-249: mark the ids of the batch not yet in the dict
MarkBatchFailed(dict, batch_ids, text) ==
    [id \in DOMAIN dict \cup Range(batch_ids) |->
        IF id \in DOMAIN dict THEN dict[id] ELSE ErrorMarker(text)]

\* the except clauses without the last one, `except Exception`
MetadataHandler_NoCatchAll(exc) ==
    IF exc = HttpError THEN "http" ELSE "propagate"

\* lines 225 and 242: which except clause takes the exception
MetadataHandler(exc) ==
    IF exc = HttpError THEN "http"
    ELSE IF exc \in MetadataExceptions THEN "unexpected"
    ELSE "propagate"

\* The responses a successful call may give for a batch: an item for every
\* id, or for every id but the first of the batch.
Responses(batch_ids) == {Range(batch_ids), Range(batch_ids) \ {batch_ids[1]}}

\* The batch is over: the for loop goes on (line 251), or the function
\* returns (line 252).
EndBatch(retries_left) ==
    /\ m_i' = m_i + BatchSize
    /\ retries' = IF m_i + BatchSize < Len(video_ids) THEN max_retries   \* line 210
                  ELSE retries_left
    /\ m_pc' = "batch"
    /\ m_result' = m_result

\* lines 211-250: one attempt of the current batch, and what follows it
FetchBatchAttempt ==
    /\ m_pc = "batch"
    /\ m_i < Len(video_ids)
    /\ retries > 0
    /\ LET batch_ids == BatchIds(video_ids, m_i)
           b == m_i \div BatchSize + 1
           Log(outcome) ==
               IF Len(m_outcomes) < b
               THEN /\ m_batches' = Append(m_batches, batch_ids)
                    /\ m_outcomes' = Append(m_outcomes, <<outcome>>)
               ELSE /\ m_batches' = m_batches
                    /\ m_outcomes' = [m_outcomes EXCEPT ![b] = Append(@, outcome)]
       IN  \/ \E items \in Responses(batch_ids) :
                /\ metadata_dict' = RecordItems(metadata_dict, items)
                /\ m_delivered' = m_delivered \cup items
                /\ Log("ok")
                /\ EndBatch(retries)
           \/ \E exc \in MetadataExceptions :
                /\ Log(exc)
                /\ UNCHANGED m_delivered
                /\ CASE MetadataHandler(exc) = "http" /\ retries - 1 > 0 ->
                          /\ retries' = retries - 1
                          /\ UNCHANGED <<m_i, m_pc, m_result, metadata_dict>>
                     [] MetadataHandler(exc) = "http" /\ retries - 1 <= 0 ->
                          /\ metadata_dict' = MarkBatchFailed(metadata_dict, batch_ids,
                                 "Metadata fetch failed after retries")
                          /\ EndBatch(retries - 1)
                     [] MetadataHandler(exc) = "unexpected" ->
                          /\ metadata_dict' = MarkBatchFailed(metadata_dict, batch_ids,
                                 "Unexpected metadata fetch error: " \o exc)
                          /\ EndBatch(retries)
                     [] OTHER ->
                          /\ m_result' = "raised"
                          /\ m_pc' = "done"
                          /\ UNCHANGED <<m_i, retries, metadata_dict>>
    /\ UNCHANGED video_ids
    /\ UNCHANGED not_metadata_vars

\* lines 202-203 and 252: return {} for no ids, metadata_dict after the loop
ReturnMetadata ==
    /\ m_pc = "batch"
    /\ m_i >= Len(video_ids)
    /\ m_pc' = "done"
    /\ m_result' = "returned"
    /\ UNCHANGED <<video_ids, m_i, retries, metadata_dict, m_batches, m_outcomes,
                   m_delivered>>
    /\ UNCHANGED not_metadata_vars

\* get_videos_metadata is not running.
MetadataOff ==
    /\ m_pc = "off"
    /\ video_ids = <<>>
    /\ m_i = 0
    /\ retries = 0
    /\ metadata_dict = <<>>
    /\ m_result = "none"
    /\ m_batches = <<>>
    /\ m_outcomes = <<>>
    /\ m_delivered = {}

\* The numbers of ids tried: around the multiples of the batch size, and 120.
VideoIdCounts ==
    {n \in 0..MaxVideoIds :
        n % BatchSize \in {0, 1, BatchSize - 1} \/ n = 120 \/ n = MaxVideoIds}

\* lines 200-205: the call; the ids are 1..n, or (a video listed twice) the
\* same with the last one equal to the first
MetadataStart ==
    /\ m_pc = "batch"
    /\ \E n \in VideoIdCounts, twice \in BOOLEAN :
         video_ids = [p \in 1..n |-> IF twice /\ p = n THEN 1 ELSE p]
    /\ m_i = 0
    /\ retries = max_retries
    /\ metadata_dict = <<>>
    /\ m_result = "none"
    /\ m_batches = <<>>
    /\ m_outcomes = <<>>
    /\ m_delivered = {}

\* --------------------------------------------- get_all_video_ids_in_playlist
\* line 160: maxResults=50
maxResults == 50

\* pageToken=None (the first page), and nextPageToken missing from a response
NoToken == 0

\* The remote side of playlistItems().list: the page that starts at the
\* token, and the token of the page after it (NoToken on the last page).
PageItems(items, size, token) ==
    SubSeq(items, token + 1, Min(token + size, Len(items)))

NextPageToken(items, size, token) ==
    IF token + size < Len(items) THEN token + size ELSE NoToken

\* What request.execute() can raise here; all derive from Exception.
PlaylistExceptions == {"HttpError", "TimeoutError"}

\* the except clauses without the last one, `except Exception`
PlaylistHandler_NoCatchAll(exc) ==
    IF exc = "HttpError" THEN "http" ELSE "propagate"

\* lines 175 and 190: which except clause takes the exception
PlaylistHandler(exc) ==
    IF exc = "HttpError" THEN "http"
    ELSE IF exc \in PlaylistExceptions THEN "unexpected"
    ELSE "propagate"

\* the token after a failed request, were the page given up
TokenAfterFailure_SkipsPage(items, size, token) == NextPageToken(items, size, token)

\* lines 161 and 175-185: a failed request leaves next_page_token as it was
TokenAfterFailure(items, size, token) == token

\* retries left alone by a failed request
RetriesAfterFailure_NotCounted(r) == r

\* line 179: retries -= 1
RetriesAfterFailure(r) == r - 1

\* the ids of a page added in front of the list
CollectPage_InFront(ids, page) == page \o ids

\* lines 164-167: video_ids.append(video_id) for every item of the page
CollectPage(ids, page) == ids \o page

Request(token, outcome) == [token |-> token, outcome |-> outcome]

\* lines 156-193: one page request, and what follows it
FetchPage ==
    /\ p_pc = "page"
    /\ pl_retries > 0
    /\ \/ /\ p_requests' = Append(p_requests, Request(next_page_token, "ok"))
          /\ pl_video_ids' = CollectPage(pl_video_ids,
                                 PageItems(playlist, page_size, next_page_token))
          /\ next_page_token' = NextPageToken(playlist, page_size, next_page_token)
          /\ IF next_page_token' = NoToken
             THEN p_pc' = "done" /\ p_result' = "returned"      \* line 171
             ELSE p_pc' = "page" /\ p_result' = p_result        \* line 172
          /\ UNCHANGED pl_retries
       \/ \E exc \in PlaylistExceptions :
            /\ p_requests' = Append(p_requests, Request(next_page_token, exc))
            /\ UNCHANGED pl_video_ids
            /\ CASE PlaylistHandler(exc) = "http" ->
                      /\ pl_retries' = RetriesAfterFailure(pl_retries)
                      /\ next_page_token' =
                             TokenAfterFailure(playlist, page_size, next_page_token)
                      /\ IF pl_retries' > 0
                         THEN p_pc' = "page" /\ p_result' = p_result
                         ELSE p_pc' = "done" /\ p_result' = "returned"   \* line 189
                 [] PlaylistHandler(exc) = "unexpected" ->
                      /\ p_pc' = "done" /\ p_result' = "returned"        \* line 193
                      /\ UNCHANGED <<pl_retries, next_page_token>>
                 [] OTHER ->
                      /\ p_pc' = "done" /\ p_result' = "raised"
                      /\ UNCHANGED <<pl_retries, next_page_token>>
    /\ UNCHANGED <<playlist, page_size>>
    /\ UNCHANGED not_playlist_vars

\* get_all_video_ids_in_playlist is not running.
PlaylistOff ==
    /\ p_pc = "off"
    /\ playlist = <<>>
    /\ page_size = maxResults
    /\ next_page_token = NoToken
    /\ pl_video_ids = <<>>
    /\ pl_retries = 0
    /\ p_result = "none"
    /\ p_requests = <<>>

\* The remote playlists tried: short ones served in short pages, and ones
\* around the multiples of maxResults (and 130) served in full pages.
SmallScenarios ==
    {<<n, size>> : n \in 0..MaxSmallPlaylist, size \in 1..MaxSmallPage}

FullPageScenarios ==
    {<<n, maxResults>> : n \in
        {m \in 0..MaxPlaylistItems :
            m % maxResults \in {0, 1, maxResults - 1} \/ m = 130
                \/ m = MaxPlaylistItems}}

\* lines 146-153: the call, for a playlist of the scenario sc
PlaylistStartWith(sc) ==
    /\ p_pc = "page"
    /\ playlist = [j \in 1..sc[1] |-> j]
    /\ page_size = sc[2]
    /\ next_page_token = NoToken
    /\ pl_video_ids = <<>>
    /\ pl_retries = 3
    /\ p_result = "none"
    /\ p_requests = <<>>

PlaylistStart == \E sc \in SmallScenarios \cup FullPageScenarios : PlaylistStartWith(sc)

\* ------------------------------------------------------- format_video_entry
\* A timestamp text is a sequence of tokens: a date 2023-01-dd, a time
\* hh:30:00, or a literal piece of text.
DateToken(d) == [kind |-> "date", n |-> d]
TimeToken(h) == [kind |-> "time", n |-> h]
Lit(text) == [kind |-> text, n |-> 0]

TokenText(tok) ==
    CASE tok.kind = "date" -> "2023-01-" \o ToString(tok.n)
      [] tok.kind = "time" -> ToString(tok.n) \o ":30:00"
      [] OTHER -> tok.kind

RECURSIVE RawText(_)
RawText(tokens) ==
    IF tokens = <<>> THEN ""
    ELSE TokenText(Head(tokens)) \o RawText(Tail(tokens))

\* line 66: published_at_raw.replace("Z", "+00:00"), every occurrence
replace_Z(tokens) ==
    [j \in 1..Len(tokens) |->
        IF tokens[j].kind = "Z" THEN Lit("+00:00") ELSE tokens[j]]

ValueError == "ValueError"

\* A datetime, or the exception raised in place of one.
NoDatetime(exc) ==
    [raised |-> exc, year |-> 0, month |-> 0, day |-> 0, hour |-> 0,
     minute |-> 0, second |-> 0, utcoffset |-> None]

\* line 66: datetime.fromisoformat: YYYY-MM-DD, then optionally a separator
\* and HH:MM:SS, then optionally an offset +HH:MM; a day or an hour out of
\* range, or anything else in the text, is a ValueError.
fromisoformat(tokens) ==
    LET n == Len(tokens)
        shapeOk ==
            /\ n \in {1, 3, 4}
            /\ tokens[1].kind = "date"
            /\ n >= 3 => tokens[2].kind \in {"T", " "} /\ tokens[3].kind = "time"
            /\ n = 4 => tokens[4].kind \in {"+00:00", "+05:30"}
    IN  IF ~shapeOk THEN NoDatetime(ValueError)
        ELSE IF tokens[1].n \notin 1..31 THEN NoDatetime(ValueError)
        ELSE IF n >= 3 /\ tokens[3].n \notin 0..23 THEN NoDatetime(ValueError)
        ELSE [raised |-> None,
              year |-> 2023, month |-> 1, day |-> tokens[1].n,
              hour |-> IF n >= 3 THEN tokens[3].n ELSE 0,
              minute |-> IF n >= 3 THEN 30 ELSE 0,
              second |-> 0,
              utcoffset |-> IF n = 4 THEN tokens[4].kind ELSE None]

TwoDigits(n) == IF n < 10 THEN "0" \o ToString(n) ELSE ToString(n)

\* %Z: empty for a naive datetime, UTC for timezone.utc, UTC+HH:MM otherwise
tzname(utcoffset) ==
    CASE utcoffset = None -> ""
      [] utcoffset = "+00:00" -> "UTC"
      [] OTHER -> "UTC" \o utcoffset

\* line 67: dt_obj.strftime("%Y-%m-%d %H:%M:%S %Z")
strftime(dt) ==
    ToString(dt.year) \o "-" \o TwoDigits(dt.month) \o "-" \o TwoDigits(dt.day)
        \o " " \o TwoDigits(dt.hour) \o ":" \o TwoDigits(dt.minute) \o ":"
        \o TwoDigits(dt.second) \o " " \o tzname(dt.utcoffset)

\* the try block with no except clause
FormatHandler_NoExcept(exc) == "propagate"

\* line 68: except ValueError
FormatHandler(exc) == IF exc = ValueError THEN "keep raw" ELSE "propagate"

\* lines 62-69: published_at_formatted, or the exception that escapes
published_at_formatted(metadata) ==
    LET published_at_raw ==
            IF metadata.has THEN RawText(metadata.publishedAt) ELSE "N/A"
        dt_obj == fromisoformat(replace_Z(metadata.publishedAt))
    IN  IF published_at_raw = "N/A" THEN [raised |-> None, text |-> "N/A"]
        ELSE IF dt_obj.raised = None
        THEN [raised |-> None, text |-> strftime(dt_obj)]
        ELSE IF FormatHandler(dt_obj.raised) = "keep raw"
        THEN [raised |-> None, text |-> published_at_raw]
        ELSE [raised |-> dt_obj.raised, text |-> ""]

\* lines 58-87: the call; of the entry, its "Published:" line
FormatVideoEntry ==
    /\ f_pc = "call"
    /\ f_pc' = "done"
    /\ LET p == published_at_formatted(f_metadata)
       IN  f_result' = [raised |-> p.raised,
                        line |-> IF p.raised = None THEN "Published: " \o p.text
                                 ELSE ""]
    /\ UNCHANGED f_metadata
    /\ UNCHANGED not_format_vars

NoPublishedAt == [has |-> FALSE, publishedAt |-> <<>>]

\* format_video_entry is not running.
FormatOff ==
    /\ f_pc = "off"
    /\ f_metadata = NoPublishedAt
    /\ f_result = [raised |-> None, line |-> ""]

Dates == {DateToken(d) : d \in 28..(31 + MaxOutOfRange)}
Times == {TimeToken(h) : h \in 22..(23 + MaxOutOfRange)}
Separators == {Lit("T"), Lit(" ")}
Zones == {Lit("Z"), Lit("+00:00"), Lit("+05:30")}

\* The publishedAt texts tried: dates, dates with times, with zones, in and
\* out of range, and texts that are no timestamp at all.
TimestampTexts ==
    {<<d>> : d \in Dates}
      \cup {<<d, s, t>> : d \in Dates, s \in Separators, t \in Times}
      \cup {<<d, s, t, z>> : d \in Dates, s \in Separators, t \in Times, z \in Zones}
      \cup {<<d, s, t, Lit("x")>> : d \in Dates, s \in Separators, t \in Times}
      \cup {<<d, s, t, Lit("Z"), Lit("Z")>> :
                d \in Dates, s \in Separators, t \in Times}
      \cup {<<Lit("x"), d>> : d \in Dates}
      \cup {<<>>, <<Lit("x")>>, <<Lit("N/A")>>}

\* the call, with a metadata dict that has a publishedAt string or has none
FormatStart ==
    /\ f_pc = "call"
    /\ f_metadata \in {NoPublishedAt}
           \cup {[has |-> TRUE, publishedAt |-> text] : text \in TimestampTexts}
    /\ f_result = [raised |-> None, line |-> ""]

\* ----------------------------------------- get_channel_upload_playlist_id
\* An item of the response: relatedPlaylists.uploads and snippet.title, each
\* a string or missing (None).
ChannelItems ==
    [uploads : {None, "", "UU1", "UU2"}, title : {None, "Channel A"}]

\* The responses of channels().list(...).execute(): their "items"
ChannelResponses == UNION {[1..n -> ChannelItems] : n \in 0..MaxItems}

\* What execute() can raise here.
ChannelExceptions == {"HttpError", "TimeoutError"}

\* What a call gives back: the values of a `return a, b`, the single value
\* of a `return a`, or an exception that leaves the function.
ReturnTuple(a, b) == [raised |-> None, tuple |-> TRUE, values |-> <<a, b>>]
ReturnValue(a) == [raised |-> None, tuple |-> FALSE, values |-> <<a>>]
Raise(exc) == [raised |-> exc, tuple |-> FALSE, values |-> <<>>]
NotReturned == [raised |-> None, tuple |-> FALSE, values |-> <<>>]

\* lines 123-140: the return on a response
ChannelResult(items) ==
    IF items = <<>> THEN ReturnTuple(None, None)                    \* line 126
    ELSE LET channel_item == items[1]
             uploads_playlist_id == channel_item.uploads
             channel_title == IF channel_item.title = None
                              THEN "Unknown Channel" ELSE channel_item.title
         IN  IF uploads_playlist_id \in {None, ""}
             THEN ReturnTuple(None, channel_title)                  \* line 139
             ELSE ReturnTuple(uploads_playlist_id, channel_title)   \* line 140

\* lines 141-143: the only except clause, and what it returns
ChannelHandler(exc) ==
    IF exc = "HttpError" THEN ReturnValue(None) ELSE Raise(exc)

\* lines 114-143: the call
ChannelLookup ==
    /\ c_pc = "call"
    /\ c_pc' = "returned"
    /\ IF youtube = None
       THEN /\ c_returned' = ReturnTuple(None, None)                \* line 117
            /\ UNCHANGED c_response
       ELSE \/ \E items \in ChannelResponses :
                 /\ c_response' = [outcome |-> "ok", items |-> items]
                 /\ c_returned' = ChannelResult(items)
            \/ \E exc \in ChannelExceptions :
                 /\ c_response' = [outcome |-> exc, items |-> <<>>]
                 /\ c_returned' = ChannelHandler(exc)
    /\ UNCHANGED <<youtube, c_main>>
    /\ UNCHANGED not_channel_vars

\* lines 353-358 and 601-604: upload_playlist_id, channel_title = <the call>,
\* and the branch on upload_playlist_id
MainUnpack ==
    /\ c_pc = "returned"
    /\ c_pc' = "done"
    /\ c_main' =
         IF c_returned.raised # None THEN "unhandled " \o c_returned.raised
         ELSE IF ~c_returned.tuple THEN "unhandled TypeError"
         ELSE IF c_returned.values[1] # None THEN "fetch the playlist"
         ELSE "could not find the uploads playlist"
    /\ UNCHANGED <<youtube, c_response, c_returned>>
    /\ UNCHANGED not_channel_vars

NoResponse == [outcome |-> "none", items |-> <<>>]

\* get_channel_upload_playlist_id is not running.
ChannelOff ==
    /\ c_pc = "off"
    /\ youtube = None
    /\ c_response = NoResponse
    /\ c_returned = NotReturned
    /\ c_main = "none"

\* lines 114-116: the call, with a service object or with None
ChannelStart ==
    /\ c_pc = "call"
    /\ youtube \in {"service", None}
    /\ c_response = NoResponse
    /\ c_returned = NotReturned
    /\ c_main = "none"

\* ------------------------------------------------------------ file names
\* All paths are os.path.join(output_dir, base); only the base name is kept.
final_filename_base(first, last) ==
    "video-" \o get_ordinal(first) \o "-" \o get_ordinal(last) \o "-transcripts.txt"

partial_filename_base(first, last) ==
    "video-" \o get_ordinal(first) \o "-" \o get_ordinal(last)
        \o "-transcripts_PARTIAL.txt"

\* temp names numbered by the files renamed so far, not by those recorded
temp_filename_base_CountsRenamed(filenames) ==
    LET markers ==
            {"temp_transcripts_part_" \o ToString(n) \o ".txt (rename failed)" :
                n \in 1..Len(filenames)}
        renamed == {j \in 1..Len(filenames) : filenames[j] \notin markers}
    IN  "temp_transcripts_part_" \o ToString(Cardinality(renamed) + 1) \o ".txt"

\* one temp name for every file of the run
temp_filename_base_Fixed(filenames) == "temp_transcripts_part_1.txt"

temp_filename_base(filenames) ==
    "temp_transcripts_part_" \o ToString(Len(filenames) + 1) \o ".txt"

RenameFailedMarker(temp) == temp \o " (rename failed)"
PartialRenameFailedMarker(temp) == temp \o " (partial, rename failed)"

\* ------------------------------------------------------------ filesystem
\* A file: whether its header was written, and the video numbers of the
\* entries written to it, in order.
EmptyFile == [header |-> FALSE, entries |-> <<>>]

\* open(path, "w"): creates the file, or truncates the one that is there
OpenForWrite(d, path) ==
    [p \in DOMAIN d \cup {path} |-> IF p = path THEN EmptyFile ELSE d[p]]

\* os.rename(src, dst), when it succeeds
Rename(d, src, dst) ==
    [p \in (DOMAIN d \ {src}) \cup {dst} |-> IF p = dst THEN d[src] ELSE d[p]]

WriteHeader(d, path) == [d EXCEPT ![path].header = TRUE]

WriteEntryText(d, path, k) == [d EXCEPT ![path].entries = Append(@, k)]

\* ------------------------------------------------- the file splitting loop
\* The loop-carried locals of the loop body, as one record.
WriterState ==
    [handle   |-> current_file_handle,
     count    |-> current_word_count,
     temp     |-> current_filename_temp,
     start    |-> file_start_video_number,
     out      |-> output_filenames,
     disk     |-> disk,
     brk      |-> FALSE,
     failures |-> {},
     wfail    |-> 0]

\* needs_new_file with the entry's words left out of the comparison
needs_new_file_IgnoresEntry(handle, count, entry_word_count, budget) ==
    handle = None \/ (count > budget /\ count > 0)

\* needs_new_file with >= in place of >
needs_new_file_AtBudget(handle, count, entry_word_count, budget) ==
    handle = None \/ (count + entry_word_count >= budget /\ count > 0)

\* needs_new_file looking at the entry alone, not at what the file holds
needs_new_file_IgnoresCount(handle, count, entry_word_count, budget) ==
    handle = None \/ (entry_word_count > budget /\ count > 0)

\* needs_new_file, lines 454-458
needs_new_file(handle, count, entry_word_count, budget) ==
    handle = None \/ (count + entry_word_count > budget /\ count > 0)

\* line 464: last_video_number_in_file when a full file is closed
LastVideoNumberOnClose_OffByOne(k) == k

LastVideoNumberOnClose(k) == k - 1

\* lines 532-534: last_video_number_in_file when an append failed
LastVideoNumberOnPartial_OffByOne(k) == k

LastVideoNumberOnPartial(k) == k - 1

\* lines 568-570: last_video_number_in_file in the finally block
LastVideoNumberOnFinal(k) == k


\* closing the previous file without recording a failed rename
ClosePreviousFile_NoRecord(st, k, renameOk) ==
    IF st.handle = None THEN st
    ELSE LET last_video_number_in_file == LastVideoNumberOnClose(k)
             final == final_filename_base(st.start, last_video_number_in_file)
         IN  IF renameOk
             THEN [st EXCEPT !.handle = None,
                             !.disk = Rename(st.disk, st.temp, final),
                             !.out = Append(st.out, final)]
             ELSE [st EXCEPT !.handle = None,
                             !.failures = @ \cup {"rename"}]

\* lines 461-480: close the previous file and rename it
ClosePreviousFile(st, k, renameOk) ==
    IF st.handle = None THEN st
    ELSE LET last_video_number_in_file == LastVideoNumberOnClose(k)
             final == final_filename_base(st.start, last_video_number_in_file)
         IN  IF renameOk
             THEN [st EXCEPT !.handle = None,
                             !.disk = Rename(st.disk, st.temp, final),
                             !.out = Append(st.out, final)]
             ELSE [st EXCEPT !.handle = None,
                             !.out = Append(st.out, RenameFailedMarker(st.temp)),
                             !.failures = @ \cup {"rename"}]

\* starting a new file with the count of the previous one carried over
StartNewFile_NoReset(st, k, openOk, headerOk) ==
    LET temp == temp_filename_base(st.out)
        s1 == [st EXCEPT !.start = k, !.temp = temp]
    IN  IF ~openOk
        THEN [s1 EXCEPT !.handle = None, !.brk = TRUE,
                        !.failures = @ \cup {"open"}]
        ELSE IF ~headerOk
        THEN [s1 EXCEPT !.handle = None, !.brk = TRUE,
                        !.disk = OpenForWrite(st.disk, temp),
                        !.failures = @ \cup {"header"}]
        ELSE [s1 EXCEPT !.handle = Open,
                        !.disk = WriteHeader(OpenForWrite(st.disk, temp), temp)]

\* lines 483-517: start a new file and write its header
StartNewFile(st, k, openOk, headerOk) ==
    LET temp == temp_filename_base(st.out)
        s1 == [st EXCEPT !.start = k, !.temp = temp]
    IN  IF ~openOk
        THEN [s1 EXCEPT !.handle = None, !.brk = TRUE,
                        !.failures = @ \cup {"open"}]
        ELSE IF ~headerOk
        THEN [s1 EXCEPT !.handle = None, !.brk = TRUE,
                        !.disk = OpenForWrite(st.disk, temp),
                        !.failures = @ \cup {"header"}]
        ELSE [s1 EXCEPT !.handle = Open,
                        !.disk = WriteHeader(OpenForWrite(st.disk, temp), temp),
                        !.count = header_words]

\* lines 520-554: write the entry; on IOError finalize the file as PARTIAL
WriteEntry(st, k, entry_word_count, writeOk, renameOk) ==
    IF st.handle = None THEN st
    ELSE IF writeOk
    THEN [st EXCEPT !.disk = WriteEntryText(st.disk, st.temp, k),
                    !.count = @ + entry_word_count]
    ELSE LET last_video_number_in_file == LastVideoNumberOnPartial(k)
             partial == partial_filename_base(st.start, last_video_number_in_file)
             s1 == [st EXCEPT !.handle = None, !.brk = TRUE, !.wfail = k,
                              !.failures = @ \cup {"write"}]
         IN  IF renameOk
             THEN [s1 EXCEPT !.disk = Rename(st.disk, st.temp, partial),
                             !.out = Append(st.out, partial)]
             ELSE [s1 EXCEPT !.out = Append(st.out, PartialRenameFailedMarker(st.temp)),
                             !.failures = @ \cup {"rename"}]

\* lines 449-554: the loop body after the entry text is prepared
LoopBody(st, k, entry_word_count, io) ==
    LET s1 == IF needs_new_file(st.handle, st.count, entry_word_count,
                                MAX_WORDS_PER_FILE)
              THEN StartNewFile(ClosePreviousFile(st, k, io.closeRename),
                                k, io.open, io.header)
              ELSE st
    IN  IF s1.brk THEN s1
        ELSE WriteEntry(s1, k, entry_word_count, io.write, io.partialRename)

\* The outcomes of the file operations of one iteration.
IOOutcomes ==
    [closeRename : BOOLEAN, open : BOOLEAN, header : BOOLEAN,
     write : BOOLEAN, partialRename : BOOLEAN]

\* lines 399-557: one iteration of `for i, video_id in enumerate(video_ids)`
ProcessVideo ==
    /\ pc = "loop"
    /\ \E entry_word_count \in 1..MaxEntryWords, io \in IOOutcomes :
         LET k  == current_video_number + 1
             st == LoopBody(WriterState, k, entry_word_count, io)
         IN  /\ current_video_number' = k
             /\ entry_words' = Append(entry_words, entry_word_count)
             /\ current_file_handle' = st.handle
             /\ current_word_count' = st.count
             /\ current_filename_temp' = st.temp
             /\ file_start_video_number' = st.start
             /\ output_filenames' = st.out
             /\ disk' = st.disk
             /\ io_failures' = io_failures \cup st.failures
             /\ write_failed_at' = st.wfail
             /\ pc' = IF st.brk \/ k = total_videos THEN "finally" ELSE "loop"
    /\ UNCHANGED <<total_videos, MAX_WORDS_PER_FILE, header_words>>
    /\ UNCHANGED not_writer_vars

\* lines 559-585: the finally block finalizes the last file
FinalizeLastFile ==
    /\ pc = "finally"
    /\ pc' = "done"
    /\ IF current_file_handle # None
       THEN \E renameOk \in BOOLEAN :
              LET last_video_number_in_file ==
                      LastVideoNumberOnFinal(current_video_number)
                  final == final_filename_base(file_start_video_number,
                                               last_video_number_in_file)
              IN  /\ current_file_handle' = current_file_handle
                  /\ IF renameOk
                     THEN /\ disk' = Rename(disk, current_filename_temp, final)
                          /\ output_filenames' = Append(output_filenames, final)
                          /\ io_failures' = io_failures
                     ELSE /\ disk' = disk
                          /\ output_filenames' = Append(output_filenames,
                                  RenameFailedMarker(current_filename_temp))
                          /\ io_failures' = io_failures \cup {"rename"}
       ELSE UNCHANGED <<current_file_handle, disk, output_filenames, io_failures>>
    /\ UNCHANGED <<total_videos, MAX_WORDS_PER_FILE, header_words,
                   current_video_number, current_word_count, current_filename_temp,
                   file_start_video_number, entry_words, write_failed_at>>
    /\ UNCHANGED not_writer_vars

\* lines 378-388: the state before the loop, for total_videos > 0 (line 370)
WriterStart ==
    /\ pc = "loop"
    /\ total_videos \in 1..MaxVideos
    /\ MAX_WORDS_PER_FILE \in 1..MaxBudget
    /\ header_words \in 1..MaxHeaderWords
    /\ current_video_number = 0
    /\ current_word_count = 0
    /\ current_file_handle = None
    /\ current_filename_temp = None
    /\ file_start_video_number = 1
    /\ output_filenames = <<>>
    /\ disk = <<>>
    /\ entry_words = <<>>
    /\ io_failures = {}
    /\ write_failed_at = 0

\* The writer is not running.
WriterOff ==
    /\ pc = "off"
    /\ total_videos = 0
    /\ MAX_WORDS_PER_FILE = 0
    /\ header_words = 0
    /\ current_video_number = 0
    /\ current_word_count = 0
    /\ current_file_handle = None
    /\ current_filename_temp = None
    /\ file_start_video_number = 1
    /\ output_filenames = <<>>
    /\ disk = <<>>
    /\ entry_words = <<>>
    /\ io_failures = {}
    /\ write_failed_at = 0

WriterInit ==
    WriterStart /\ TranscriptOff /\ MetadataOff /\ PlaylistOff /\ FormatOff
        /\ ChannelOff

WriterNext == ProcessVideo \/ FinalizeLastFile

SpecWriter == WriterInit /\ [][WriterNext]_vars

TranscriptInit ==
    TranscriptStart /\ WriterOff /\ MetadataOff /\ PlaylistOff /\ FormatOff
        /\ ChannelOff

TranscriptNext == ListTranscripts \/ SelectTranscript \/ FetchTranscript

SpecTranscript == TranscriptInit /\ [][TranscriptNext]_vars

MetadataInit ==
    MetadataStart /\ WriterOff /\ TranscriptOff /\ PlaylistOff /\ FormatOff
        /\ ChannelOff

MetadataNext == FetchBatchAttempt \/ ReturnMetadata

SpecMetadata == MetadataInit /\ [][MetadataNext]_vars

PlaylistInit ==
    PlaylistStart /\ WriterOff /\ TranscriptOff /\ MetadataOff /\ FormatOff
        /\ ChannelOff

PlaylistNext == FetchPage

SpecPlaylist == PlaylistInit /\ [][PlaylistNext]_vars

FormatInit ==
    FormatStart /\ WriterOff /\ TranscriptOff /\ MetadataOff /\ PlaylistOff
        /\ ChannelOff

ChannelInit ==
    ChannelStart /\ WriterOff /\ TranscriptOff /\ MetadataOff /\ PlaylistOff
        /\ FormatOff

ChannelNext == ChannelLookup \/ MainUnpack

SpecChannel == ChannelInit /\ [][ChannelNext]_vars

FormatNext == FormatVideoEntry

SpecFormat == FormatInit /\ [][FormatNext]_vars

\* lines 362-399: main takes the list the playlist call returned, counts it,
\* and enters the loop when it is not empty (the metadata call in between
\* returns a dict whatever happens and touches none of this state).
MainStartLoop ==
    /\ p_pc = "done"
    /\ p_result = "returned"
    /\ pc = "off"
    /\ total_videos' = Len(pl_video_ids)
    /\ IF total_videos' > 0
       THEN /\ pc' = "loop"
            /\ MAX_WORDS_PER_FILE' \in 1..MaxBudget
            /\ header_words' \in 1..MaxHeaderWords
       ELSE /\ pc' = "done"
            /\ UNCHANGED <<MAX_WORDS_PER_FILE, header_words>>
    /\ current_video_number' = 0
    /\ current_word_count' = 0
    /\ current_file_handle' = None
    /\ current_filename_temp' = None
    /\ file_start_video_number' = 1
    /\ output_filenames' = <<>>
    /\ UNCHANGED <<disk, entry_words, io_failures, write_failed_at>>
    /\ UNCHANGED not_writer_vars

\* The run from the playlist call to the last file, for the short playlists.
MainInit == PlaylistInit /\ Len(playlist) <= MaxVideos

MainNext == PlaylistNext \/ MainStartLoop \/ WriterNext

SpecMain == MainInit /\ [][MainNext]_vars

\* Every remote-call site and the loop over the videos, each from its start.
\* (the loop with the largest budget and header, which its length ignores)
LoopInit ==
    WriterInit /\ MAX_WORDS_PER_FILE = MaxBudget /\ header_words = MaxHeaderWords

CallsInit == PlaylistInit \/ MetadataInit \/ TranscriptInit \/ LoopInit

CallsNext == PlaylistNext \/ MetadataNext \/ TranscriptNext \/ WriterNext

SpecCalls == CallsInit /\ [][CallsNext]_vars

\* ================================================== claims: the writer
\* The ordinal range a final file name encodes, decoded from the name.
IsFinalName(name) ==
    \E a, b \in 0..total_videos : name = final_filename_base(a, b)

RangeOfName(name) ==
    CHOOSE r \in (0..total_videos) \X (0..total_videos) :
        name = final_filename_base(r[1], r[2])

NoIOFailure == io_failures = {}

\* C1: in a finished run without any failed open, write or rename, the ranges
\* encoded in the names of the produced files partition 1..total_videos: the
\* first starts at 1, each next one starts right after the previous one's
\* last ordinal, and the last one ends at total_videos.
C1_RangesPartition ==
    (pc = "done" /\ NoIOFailure) =>
        /\ Len(output_filenames) >= 1
        /\ \A j \in 1..Len(output_filenames) :
             /\ IsFinalName(output_filenames[j])
             /\ RangeOfName(output_filenames[j])[1] <= RangeOfName(output_filenames[j])[2]
        /\ RangeOfName(output_filenames[1])[1] = 1
        /\ \A j \in 2..Len(output_filenames) :
             RangeOfName(output_filenames[j])[1]
                 = RangeOfName(output_filenames[j - 1])[2] + 1
        /\ RangeOfName(Last(output_filenames))[2] = total_videos

C1_Witness ==
    /\ pc = "done"
    /\ NoIOFailure
    /\ total_videos >= 3
    /\ Len(output_filenames) = 2

\* C2: every file the writer has finalized (renamed to the final or PARTIAL
\* name it is recorded under) holds at least one video entry after its header.
C2_NoEmptyFile ==
    \A j \in 1..Len(output_filenames) :
        output_filenames[j] \in DOMAIN disk
            => Len(disk[output_filenames[j]].entries) >= 1

\* C3: once the append of video k has failed, the handle is dropped, the
\* loop has stopped at k, the file is recorded exactly once, under the
\* PARTIAL name for [first..k-1] (or, when that rename fails as well, under
\* its temp name with the marker), and nothing is processed, written or
\* recorded afterwards: the finally block leaves the file alone.
C3_AfterWriteFailure ==
    write_failed_at # 0 =>
        /\ pc \in {"finally", "done"}
        /\ current_file_handle = None
        /\ current_video_number = write_failed_at
        /\ Len(entry_words) = write_failed_at
        /\ Len(output_filenames) >= 1
        /\ LET partial == partial_filename_base(file_start_video_number,
                                                write_failed_at - 1)
           IN  \/ /\ Last(output_filenames) = partial
                  /\ partial \in DOMAIN disk
                  /\ current_filename_temp \notin DOMAIN disk
               \/ /\ "rename" \in io_failures
                  /\ Last(output_filenames)
                         = PartialRenameFailedMarker(current_filename_temp)
                  /\ current_filename_temp \in DOMAIN disk
        /\ \A p \in DOMAIN disk : \A j \in 1..Len(disk[p].entries) :
             disk[p].entries[j] < write_failed_at

C3_NothingAfterFailure ==
    write_failed_at # 0 =>
        UNCHANGED <<output_filenames, disk, current_video_number, entry_words,
                    current_file_handle, write_failed_at>>

\* C3: a failed append is fatal to the run: the state after it is always as
\* C3_AfterWriteFailure says, and no later step changes the files, the list
\* of produced names or the video reached.
C3_WriteFailureIsFatal == [](C3_AfterWriteFailure) /\ [][C3_NothingAfterFailure]_vars

C3_Witness ==
    /\ pc = "done"
    /\ write_failed_at = 2
    /\ total_videos >= 3
    /\ Last(output_filenames) = "video-1st-1st-transcripts_PARTIAL.txt"

\* C4: an entry whose word count alone exceeds the budget is the only entry
\* of the file it is written to, and when no file operation fails it is
\* written (whole, to a file of its own) and the loop goes on to the end.
C4_OversizedEntryAlone ==
    /\ \A p \in DOMAIN disk : \A j \in 1..Len(disk[p].entries) :
         entry_words[disk[p].entries[j]] > MAX_WORDS_PER_FILE
             => Len(disk[p].entries) = 1
    /\ NoIOFailure =>
         \A k \in 1..current_video_number :
             entry_words[k] > MAX_WORDS_PER_FILE
                 => \E p \in DOMAIN disk : disk[p].entries = <<k>>
    /\ (pc = "done" /\ NoIOFailure) => current_video_number = total_videos

C4_Witness ==
    /\ pc = "done"
    /\ NoIOFailure
    /\ total_videos >= 3
    /\ entry_words[2] > MAX_WORDS_PER_FILE
    /\ entry_words[1] <= MAX_WORDS_PER_FILE
    /\ Len(output_filenames) = 3

\* C5: when the header's words plus the words of all entries fit the budget
\* and no file operation fails, the run produces exactly one file, named for
\* the range 1..total_videos, holding all entries in order.
C5_SingleFile ==
    (pc = "done" /\ NoIOFailure
        /\ header_words + SumSeq(entry_words) <= MAX_WORDS_PER_FILE) =>
        /\ output_filenames = <<final_filename_base(1, total_videos)>>
        /\ DOMAIN disk = {final_filename_base(1, total_videos)}
        /\ disk[final_filename_base(1, total_videos)].entries
               = [k \in 1..total_videos |-> k]
        /\ total_videos = 3 => output_filenames = <<"video-1st-3rd-transcripts.txt">>

C5_Witness ==
    /\ pc = "done"
    /\ NoIOFailure
    /\ total_videos = 3
    /\ header_words + SumSeq(entry_words) = MAX_WORDS_PER_FILE
    /\ output_filenames = <<"video-1st-3rd-transcripts.txt">>


\* ================================ claims: get_transcript_for_video
ListSucceeded == Len(t_calls) >= 1 /\ t_calls[1].outcome = "ok"

Selected == ListSucceeded /\ t_pc \in {"fetch", "done"}

PreferredTracks(generated) ==
    {i \in 1..Len(transcript_list) :
        /\ transcript_list[i].is_generated = generated
        /\ \E n \in 1..Len(languages) : transcript_list[i].language = languages[n]}

en_manual == [language |-> "en", is_generated |-> FALSE]
en_generated == [language |-> "en", is_generated |-> TRUE]
fr_generated == [language |-> "fr", is_generated |-> TRUE]

\* C6: the track is selected by tiers: a manual track in a preferred
\* language; else a generated track in a preferred language; else the first
\* track enumerated; else the call returns (None, "No Transcript Found")
\* without fetching anything.
C6_TierSelection ==
    Selected =>
        /\ PreferredTracks(FALSE) # {} => transcript \in PreferredTracks(FALSE)
        /\ (PreferredTracks(FALSE) = {} /\ PreferredTracks(TRUE) # {})
               => transcript \in PreferredTracks(TRUE)
        /\ (PreferredTracks(FALSE) = {} /\ PreferredTracks(TRUE) = {}
                /\ transcript_list # <<>>) => transcript = 1
        /\ transcript_list # <<>> => found_lang = transcript_list[transcript].language
        /\ transcript_list = <<>> =>
               /\ t_pc = "done"
               /\ t_result = Returned(NoneText, "No Transcript Found")
               /\ Len(t_calls) = 1
        /\ (languages = <<"en">>
                /\ transcript_list \in {<<en_manual, en_generated>>,
                                        <<en_generated, en_manual>>})
               => transcript_list[transcript] = en_manual
        /\ (languages = <<"en">> /\ transcript_list = <<fr_generated>>)
               => transcript_list[transcript] = fr_generated /\ found_lang = "fr"

C6_Witness ==
    /\ Selected
    /\ languages = <<"en">>
    /\ transcript_list = <<en_generated, en_manual>>
    /\ transcript = 2

\* The status the function documents for each exception.
StatusOf(exc) ==
    IF exc = "TranscriptsDisabled" THEN "Transcripts Disabled"
    ELSE IF exc = "NoTranscriptFound" THEN "No Transcript Found"
    ELSE "Error: " \o exc

\* C7: the call never raises: it ends by returning a pair; when listing or
\* fetching raised, or no track exists, the text is None and the status is
\* the one of that failure; and each remote call is made at most once.
C7_NeverRaises ==
    /\ t_result.kind # "raise"
    /\ Len(t_calls) <= 2
    /\ \A i \in 1..Len(t_calls) : t_calls[i].call = (IF i = 1 THEN "list" ELSE "fetch")
    /\ t_pc = "done" =>
         /\ t_result.kind = "return"
         /\ Last(t_calls).outcome # "ok" =>
                t_result = Returned(NoneText, StatusOf(Last(t_calls).outcome))
         /\ (Len(t_calls) = 1 /\ Last(t_calls).outcome = "ok") =>
                t_result = Returned(NoneText, "No Transcript Found")

C7_Witness ==
    /\ t_pc = "done"
    /\ Len(t_calls) = 2
    /\ Last(t_calls).outcome = "VideoUnavailable"
    /\ t_result = Returned(NoneText, "Error: VideoUnavailable")

\* A fragment has non-empty text when its text holds a non-blank character.
HasWords(text) ==
    text.present /\ \E i \in 1..Len(text.chars) : ~IsSpace(text.chars[i])

\* C8: when the fetch yields no fragment, or only fragments without
\* non-empty text (missing, empty or blank), the call returns None as text
\* and the selected track's language.
C8_EmptyTranscriptIsAbsent ==
    (t_pc = "done" /\ Len(t_calls) = 2 /\ Last(t_calls).outcome = "ok"
        /\ \A i \in 1..Len(Last(t_calls).fetched) : ~HasWords(Last(t_calls).fetched[i]))
        => t_result = Returned(NoneText, found_lang)

\* ===================================== claims: get_videos_metadata
RECURSIVE Concat(_)
Concat(seqs) == IF seqs = <<>> THEN <<>> ELSE Head(seqs) \o Concat(Tail(seqs))

\* A batch is over when its last attempt succeeded or raised something other
\* than HttpError, or when it has used its whole retry budget.
BatchOver(b) ==
    \/ Last(m_outcomes[b]) # HttpError
    \/ Len(m_outcomes[b]) = 3

BatchSucceeded(b) == Last(m_outcomes[b]) = "ok"

BatchExhausted(b) == Len(m_outcomes[b]) = 3 /\ Last(m_outcomes[b]) = HttpError

BatchFailed(b) == BatchOver(b) /\ ~BatchSucceeded(b)

\* The id was recorded from the response of another batch, which succeeded.
FetchedElsewhere(id, b) ==
    /\ id \in m_delivered
    /\ \E c \in 1..Len(m_batches) :
         c # b /\ id \in Range(m_batches[c]) /\ BatchSucceeded(c)

\* C9: the ids are cut into consecutive batches of at most 50 (120 ids give
\* 50, 50, 20); every batch gets up to 3 attempts whatever happened to the
\* batches before it; a batch that used its 3 attempts leaves an error marker
\* on each of its ids that is not in the result already; and the ids a
\* successful batch delivered hold their metadata whatever the other batches
\* did.
C9_BatchesAndRetries ==
    /\ Len(m_batches) = Len(m_outcomes)
    /\ \A b \in 1..Len(m_batches) :
         /\ m_batches[b] # <<>>
         /\ Len(m_batches[b]) <= 50
         /\ b < Len(m_batches) => Len(m_batches[b]) = 50 /\ BatchOver(b)
         /\ Len(m_outcomes[b]) \in 1..3
         /\ \A a \in 1..(Len(m_outcomes[b]) - 1) : m_outcomes[b][a] = HttpError
         /\ (m_pc = "done" \/ b < Len(m_batches)) => BatchOver(b)
         /\ BatchExhausted(b) =>
              \A id \in Range(m_batches[b]) :
                  /\ id \in DOMAIN metadata_dict
                  /\ \/ metadata_dict[id].kind = "error"
                     \/ FetchedElsewhere(id, b)
         /\ BatchSucceeded(b) =>
              \A id \in Range(m_batches[b]) \cap m_delivered :
                  id \in DOMAIN metadata_dict /\ metadata_dict[id].kind = "metadata"
    /\ Concat(m_batches) = SubSeq(video_ids, 1, Len(Concat(m_batches)))
    /\ m_result = "returned" => Concat(m_batches) = video_ids
    /\ (m_result = "returned" /\ Len(video_ids) = 120) =>
           <<Len(m_batches[1]), Len(m_batches[2]), Len(m_batches[3])>> = <<50, 50, 20>>

C9_Witness ==
    /\ m_result = "returned"
    /\ Len(video_ids) = 120
    /\ Len(m_outcomes[1]) = 2 /\ BatchSucceeded(1)
    /\ BatchExhausted(2)
    /\ BatchSucceeded(3)
    /\ \A id \in 51..100 :
         metadata_dict[id] = ErrorMarker("Metadata fetch failed after retries")
    /\ \A id \in {2, 50, 101, 119} :
         id \in DOMAIN metadata_dict /\ metadata_dict[id].kind = "metadata"

\* C10: the call never raises: it ends by returning the mapping, whatever the
\* batch calls did; and every failed batch (retries used up, or an unexpected
\* exception) shows as error markers on its ids, and only failed batches do.
C10_NeverRaises ==
    /\ m_result # "raised"
    /\ m_pc = "done" => m_result = "returned"
    /\ \A b \in 1..Len(m_batches) :
         BatchFailed(b) =>
             \A id \in Range(m_batches[b]) :
                 /\ id \in DOMAIN metadata_dict
                 /\ \/ metadata_dict[id].kind = "error"
                    \/ FetchedElsewhere(id, b)
    /\ \A id \in DOMAIN metadata_dict :
         metadata_dict[id].kind = "error" =>
             \E b \in 1..Len(m_batches) : BatchFailed(b) /\ id \in Range(m_batches[b])

C10_Witness ==
    /\ m_result = "returned"
    /\ Len(m_batches) = 3
    /\ m_outcomes[1] = <<"TimeoutError">>
    /\ BatchExhausted(2)
    /\ BatchSucceeded(3)
    /\ metadata_dict[2] = ErrorMarker("Unexpected metadata fetch error: TimeoutError")
    /\ metadata_dict[51] = ErrorMarker("Metadata fetch failed after retries")

\* ------------------------------------------------------ claims: the playlist
IsOk(r) == r.outcome = "ok"

IsHttpError(r) == r.outcome = "HttpError"

OkRequests == SelectSeq(p_requests, IsOk)

NoFailingCall == Len(OkRequests) = Len(p_requests)

CeilDiv(a, b) == (a + b - 1) \div b

\* The ids of the first pages of the playlist, as many pages as were fetched.
FetchedSoFar ==
    SubSeq(playlist, 1, Min(Len(OkRequests) * page_size, Len(playlist)))

IsPrefix(a, b) == Len(a) <= Len(b) /\ a = SubSeq(b, 1, Len(a))

\* C11 as stated: with no failing call and pages of 50, a playlist of n items
\* takes exactly ceil(n/50) page requests and all n ids come back in order.
C11_CeilRequests ==
    (p_pc = "done" /\ NoFailingCall /\ page_size = maxResults) =>
        /\ Len(p_requests) = CeilDiv(Len(playlist), maxResults)
        /\ p_result = "returned"
        /\ pl_video_ids = playlist

\* C11: with no failing call, a playlist of n >= 1 items served in pages of
\* s items (s = 50 for full pages) takes exactly ceil(n/s) page requests, an
\* empty playlist takes one request, and all n ids come back in page order.
C11_PageRequests ==
    (p_pc = "done" /\ NoFailingCall) =>
        /\ Len(p_requests) = IF Len(playlist) = 0 THEN 1
                             ELSE CeilDiv(Len(playlist), page_size)
        /\ p_result = "returned"
        /\ pl_video_ids = playlist

C11_Witness ==
    /\ p_pc = "done" /\ NoFailingCall
    /\ page_size = maxResults
    /\ Len(playlist) = 130
    /\ Len(p_requests) = 3
    /\ pl_video_ids = playlist

\* C12: the request after an HttpError carries the same token; the pages
\* fetched are the first pages of the playlist, each once and in order, and
\* video_ids holds exactly their ids, once each, in that order; no step
\* removes an id already collected.
C12_PagesInOrder ==
    /\ \A j \in 2..Len(p_requests) :
           IsHttpError(p_requests[j - 1]) =>
               p_requests[j].token = p_requests[j - 1].token
    /\ \A j \in 1..Len(OkRequests) : OkRequests[j].token = (j - 1) * page_size
    /\ pl_video_ids = FetchedSoFar
    /\ \A a, b \in 1..Len(pl_video_ids) :
           pl_video_ids[a] = pl_video_ids[b] => a = b

C12_RetrySamePage ==
    [](C12_PagesInOrder) /\ [][IsPrefix(pl_video_ids, pl_video_ids')]_vars

C12_Witness ==
    /\ p_pc = "done"
    /\ \E j \in 2..Len(p_requests) :
           /\ IsHttpError(p_requests[j - 1])
           /\ p_requests[j - 1].token # NoToken
           /\ IsOk(p_requests[j])
    /\ Len(OkRequests) >= 3
    /\ pl_video_ids = playlist

\* C13 as stated: the budget of 3 belongs to the current page, so when the
\* function gives up on HttpErrors, the page it gave up on has failed 3 times.
FailuresOn(token) ==
    Len(SelectSeq(p_requests, LAMBDA r : IsHttpError(r) /\ r.token = token))

C13_BudgetPerPage ==
    (p_pc = "done" /\ p_requests # <<>> /\ IsHttpError(Last(p_requests))) =>
        FailuresOn(Last(p_requests).token) = 3

\* C14: when the function stops on exhausted retries or on an unexpected
\* failure, it returns (does not raise), and what it returns is exactly the
\* ids of the pages fetched so far.
C14_PartialResult ==
    (p_pc = "done" /\ ~IsOk(Last(p_requests))) =>
        /\ p_result = "returned"
        /\ pl_video_ids = FetchedSoFar

C14_Witness ==
    /\ p_pc = "done"
    /\ IsHttpError(Last(p_requests))
    /\ pl_retries = 0
    /\ p_result = "returned"
    /\ Len(pl_video_ids) > 0
    /\ Len(pl_video_ids) < Len(playlist)

\* ----------------------------------------------------- claims: termination
FailedRequests == Len(p_requests) - Len(OkRequests)

PagesLeft ==
    IF Len(playlist) = 0 THEN 1
    ELSE CeilDiv(Len(playlist) - next_page_token, page_size)

BatchesLeft ==
    IF m_i >= Len(video_ids) THEN 0 ELSE CeilDiv(Len(video_ids) - m_i, BatchSize)

\* What is left to do: it is a natural number and every step lowers it.
PlaylistMeasure == IF p_pc = "page" THEN 1 + pl_retries + PagesLeft ELSE 0

MetadataMeasure ==
    IF m_pc = "batch" THEN 1 + retries + (max_retries + 1) * BatchesLeft ELSE 0

TranscriptMeasure ==
    CASE t_pc = "list" -> 3 [] t_pc = "select" -> 2 [] t_pc = "fetch" -> 1
      [] OTHER -> 0

WriterMeasure ==
    CASE pc = "loop" -> 2 + total_videos - current_video_number
      [] pc = "finally" -> 1
      [] OTHER -> 0

Measure == PlaylistMeasure + MetadataMeasure + TranscriptMeasure + WriterMeasure

Terminated ==
    /\ p_pc \in {"off", "done"}
    /\ m_pc \in {"off", "done"}
    /\ t_pc \in {"off", "done"}
    /\ pc \in {"off", "done"}

C15_Bounded ==
    /\ FailedRequests <= 3
    /\ \A b \in 1..Len(m_outcomes) : Len(m_outcomes[b]) <= max_retries
    /\ Len(t_calls) <= 2
    /\ \A a, b \in 1..Len(t_calls) : t_calls[a].call = t_calls[b].call => a = b
    /\ Len(entry_words) = current_video_number
    /\ current_video_number <= total_videos
    /\ Measure \in Nat
    /\ ~Terminated => ENABLED CallsNext

\* C15: a playlist call sees at most 3 failed page requests, a metadata batch
\* at most 3 attempts, a transcript call at most one list and one fetch, the
\* loop takes every video once; whatever the remote calls do, every step
\* lowers a natural-valued measure of the work left, and only a finished run
\* has no next step: no run goes on for ever and none stops before its end.
C15_Terminates ==
    /\ [](C15_Bounded)
    /\ [][Measure' < Measure]_vars

C15_Witness ==
    /\ p_pc = "done"
    /\ FailedRequests = 3
    /\ Len(OkRequests) >= 2

\* ------------------------------------------------------- claims: the run
\* The playlist items that have an entry in some file on disk.
VideosInOutput ==
    UNION {{pl_video_ids[disk[f].entries[j]] : j \in 1..Len(disk[f].entries)} :
              f \in DOMAIN disk}

\* C16 as stated, for the playlist call: a run that writes its files and
\* completes normally (no file failure stopped it) has an entry for every
\* video of the playlist; a failed page request is never the reason a video
\* is missing from the output.
C16_NoSilentOmission ==
    (pc = "done" /\ NoIOFailure /\ total_videos > 0) =>
        \A j \in 1..Len(playlist) : playlist[j] \in VideosInOutput

\* ---------------------------------------------- claims: format_video_entry
ParseFails == fromisoformat(replace_Z(f_metadata.publishedAt)).raised = ValueError

\* A valid extended ISO-8601 value: a calendar date; or a date, T, a time
\* and optionally Z or an offset; all fields in range.
IsIso8601(tokens) ==
    /\ Len(tokens) \in {1, 3, 4}
    /\ tokens[1].kind = "date" /\ tokens[1].n <= 31
    /\ Len(tokens) >= 3 =>
           /\ tokens[2].kind = "T"
           /\ tokens[3].kind = "time" /\ tokens[3].n <= 23
    /\ Len(tokens) = 4 => tokens[4] \in Zones

\* The human-readable form: date, time of day, zone name.
HumanReadable(tokens) ==
    TokenText(tokens[1]) \o " "
        \o (IF Len(tokens) >= 3 THEN TokenText(tokens[3]) ELSE "00:00:00") \o " "
        \o (CASE Len(tokens) < 4 -> ""
              [] tokens[4].kind = "+05:30" -> "UTC+05:30"
              [] OTHER -> "UTC")

\* C19: format_video_entry never raises on a publishedAt string; a missing
\* value is rendered N/A, a valid extended ISO-8601 value as its reformatted
\* human-readable form (not the raw text), and a text that fails to parse
\* verbatim.
C19_TimestampRendering ==
    f_pc = "done" =>
        /\ f_result.raised = None
        /\ ~f_metadata.has => f_result.line = "Published: N/A"
        /\ (f_metadata.has /\ IsIso8601(f_metadata.publishedAt)) =>
               /\ f_result.line =
                      "Published: " \o HumanReadable(f_metadata.publishedAt)
               /\ f_result.line # "Published: " \o RawText(f_metadata.publishedAt)
        /\ (f_metadata.has /\ ParseFails) =>
               f_result.line = "Published: " \o RawText(f_metadata.publishedAt)

C19_Witness ==
    /\ f_pc = "done"
    /\ f_metadata.has
    /\ RawText(f_metadata.publishedAt) = "2023-01-28T22:30:00Z"
    /\ f_result = [raised |-> None, line |-> "Published: 2023-01-28 22:30:00 UTC"]

\* ------------------------------------------- claims: the writer, failures
\* The temp name of the n-th file of a run.
TempName(n) == temp_filename_base([j \in 1..(n - 1) |-> ""])

FilesHolding(k) ==
    {f \in DOMAIN disk : \E j \in 1..Len(disk[f].entries) : disk[f].entries[j] = k}

OnlyRenamesFailed == io_failures \subseteq {"rename"}

\* C17: a file whose rename failed (while closing a full file, or the last
\* one) stays on disk under its temp name with its header and entries and is
\* recorded as "<temp name> (rename failed)"; when renames are the only
\* failures the run takes every video, each entry is in exactly one file, and
\* every file on disk is recorded under its name or with the marker.
C17_RenameFailureNotFatal ==
    /\ \A j \in 1..Len(output_filenames) : \A n \in 1..(Len(output_filenames) + 1) :
           output_filenames[j] = RenameFailedMarker(TempName(n)) =>
               /\ TempName(n) \in DOMAIN disk
               /\ disk[TempName(n)].header
               /\ Len(disk[TempName(n)].entries) >= 1
    /\ (pc = "done" /\ OnlyRenamesFailed) =>
           /\ current_video_number = total_videos
           /\ \A k \in 1..total_videos : Cardinality(FilesHolding(k)) = 1
           /\ Cardinality(DOMAIN disk) = Len(output_filenames)
           /\ \A f \in DOMAIN disk : \E j \in 1..Len(output_filenames) :
                  output_filenames[j] \in {f, RenameFailedMarker(f)}

C17_Witness ==
    /\ pc = "done"
    /\ io_failures = {"rename"}
    /\ Len(output_filenames) >= 2
    /\ output_filenames[1] = RenameFailedMarker(TempName(1))
    /\ IsFinalName(Last(output_filenames))
    /\ current_video_number = total_videos

\* The entry of video k was written: the loop stops at the first iteration
\* in which an open or a write fails.
Written(k) ==
    /\ k <= current_video_number
    /\ k < current_video_number \/ io_failures \cap {"open", "header", "write"} = {}

\* The file f of this state is still there in the next one, under some
\* name, with at least the same content.
KeptInNext(f) ==
    \E g \in DOMAIN disk' :
        /\ IsPrefix(disk[f].entries, disk'[g].entries)
        /\ disk[f].header => disk'[g].header

C18_WrittenIsOnDisk ==
    \A k \in 1..current_video_number :
        Written(k) => Cardinality(FilesHolding(k)) = 1

\* C18: whatever open, header write, entry write or rename fails, every
\* entry written so far is in exactly one file on disk, and no step removes
\* or truncates a file: each file is in the next state too (perhaps renamed)
\* with at least the content it had.
C18_NeverLost ==
    /\ [](C18_WrittenIsOnDisk)
    /\ [][\A f \in DOMAIN disk : KeptInNext(f)]_vars

C18_Witness ==
    /\ pc = "done"
    /\ {"rename", "write"} \subseteq io_failures
    /\ write_failed_at = 3
    /\ output_filenames[1] = RenameFailedMarker(TempName(1))
    /\ FilesHolding(1) = {TempName(1)}
    /\ FilesHolding(2) # {} /\ FilesHolding(2) # FilesHolding(1)

\* The words in the file f: its header and its entries.
FileWords(f) ==
    (IF disk[f].header THEN header_words ELSE 0)
        + SumSeq([j \in 1..Len(disk[f].entries) |-> entry_words[disk[f].entries[j]]])

FileIsOpen == pc \in {"loop", "finally"} /\ current_file_handle = Open

C20_OnlySingleEntryFilesExceed ==
    /\ \A f \in DOMAIN disk :
           Len(disk[f].entries) >= 2 => FileWords(f) <= MAX_WORDS_PER_FILE
    /\ FileIsOpen =>
           /\ current_word_count = FileWords(current_filename_temp)
           /\ Len(disk[current_filename_temp].entries) >= 2 =>
                  current_word_count <= MAX_WORDS_PER_FILE

\* One iteration on an open file, in which no file operation fails.
C20_AppendOrStart ==
    (pc = "loop" /\ FileIsOpen /\ io_failures' = io_failures) =>
        LET k == current_video_number'
            entry_word_count == Last(entry_words')
            fits == current_word_count + entry_word_count <= MAX_WORDS_PER_FILE
            appended ==
                /\ current_filename_temp' = current_filename_temp
                /\ disk'[current_filename_temp].entries =
                       Append(disk[current_filename_temp].entries, k)
            started ==
                /\ current_filename_temp' # current_filename_temp
                /\ file_start_video_number' = k
                /\ disk'[current_filename_temp'].entries = <<k>>
        IN  /\ fits <=> appended
            /\ ~fits <=> started

\* C20: a file with two or more entries holds at most B words (header plus
\* entries), at every point of the run and for the open file by its running
\* count; with a file open, the entry is appended to it exactly when
\* accumulated + entry_words <= B and a new file is started exactly when
\* accumulated + entry_words > B.
C20_BudgetRule ==
    /\ [](C20_OnlySingleEntryFilesExceed)
    /\ [][C20_AppendOrStart]_vars

C20_Witness ==
    /\ FileIsOpen
    /\ Len(output_filenames) >= 1
    /\ Len(disk[current_filename_temp].entries) >= 2
    /\ current_word_count = MAX_WORDS_PER_FILE
    /\ \E f \in DOMAIN disk :
           Len(disk[f].entries) = 1 /\ FileWords(f) > MAX_WORDS_PER_FILE

\* ------------------------------------------ claims: the writer, accumulator
\* One iteration: what it does to current_word_count.
C21_CountStep ==
    pc = "loop" =>
        LET k == current_video_number'
            entry_word_count == Last(entry_words')
            opened == current_filename_temp' # current_filename_temp
            header_written ==
                /\ current_filename_temp' \in DOMAIN disk'
                /\ disk'[current_filename_temp'].header
        IN  CASE write_failed_at' = k ->
                    current_word_count' =
                        IF opened THEN header_words ELSE current_word_count
              [] current_file_handle' = Open /\ opened ->
                    current_word_count' = header_words + entry_word_count
              [] current_file_handle' = Open /\ ~opened ->
                    current_word_count' = current_word_count + entry_word_count
              [] OTHER ->
                    ~(opened /\ header_written)

\* C21: while a file is open, current_word_count is the words of its header
\* plus the words of the entries written to it; opening a file resets the
\* count to the header's words, a successful append adds the entry's words,
\* a failed append leaves the count as it was.
C21_Accumulator ==
    /\ [](FileIsOpen => current_word_count = FileWords(current_filename_temp))
    /\ [][C21_CountStep]_vars

C21_Witness ==
    /\ write_failed_at >= 3
    /\ "rename" \notin io_failures
    /\ Len(output_filenames) >= 2
    /\ Last(output_filenames) \in DOMAIN disk
    /\ Len(disk[Last(output_filenames)].entries) >= 1
    /\ current_word_count = FileWords(Last(output_filenames))

\* The names under which the file f may stand in the list of produced files.
RecordedAs(f) == {f, RenameFailedMarker(f), PartialRenameFailedMarker(f)}

\* C22 as stated: at the end of every run each file the writer opened is on
\* disk under a final or PARTIAL name that the list of produced files holds,
\* or under its temp name with a rename-failed marker in that list.
C22_EveryFileFinalized ==
    pc = "done" =>
        \A f \in DOMAIN disk : \E j \in 1..Len(output_filenames) :
            output_filenames[j] \in RecordedAs(f)

\* C23 as stated: every file on disk under a final or a PARTIAL name has a
\* name whose range first..last satisfies 1 <= first <= last, and holds
\* exactly the entries of the videos first..last, in every run.
C23_WellFormedRanges ==
    \A f \in DOMAIN disk : \A first, last \in 0..total_videos :
        f \in {final_filename_base(first, last),
               partial_filename_base(first, last)} =>
            /\ first >= 1
            /\ first <= last
            /\ disk[f].entries = [j \in 1..(last - first + 1) |-> first + j - 1]

\* ------------------------------------------- claims: metadata, every key
\* C24 as stated: the dict get_videos_metadata returns has a key for every
\* input id, with a metadata record or an error marker, also when a response
\* that succeeded left some of the requested ids out.
C24_KeyForEveryId ==
    (m_pc = "done" /\ m_result = "returned") =>
        \A n \in 1..Len(video_ids) :
            /\ video_ids[n] \in DOMAIN metadata_dict
            /\ metadata_dict[video_ids[n]].kind \in {"metadata", "error"}

\* ---------------------------------------- claims: the channel lookup
\* C25 as stated: whether the lookup answers or fails with an HTTP error,
\* the function returns a pair, main's two-value assignment succeeds, and a
\* lookup that gave no playlist id ends on the "could not find the uploads
\* playlist" path.
C25_AlwaysAPair ==
    (c_pc \in {"returned", "done"} /\ c_response.outcome \in {"none", "ok", "HttpError"}) =>
        /\ c_returned.raised = None
        /\ c_returned.tuple /\ Len(c_returned.values) = 2
        /\ c_pc = "done" =>
               c_main \in {"fetch the playlist", "could not find the uploads playlist"}
        /\ (c_pc = "done" /\ c_response.outcome = "HttpError") =>
               c_main = "could not find the uploads playlist"

\* ------------------------------------------ claims: the writer, temp paths
\* One step: the path of a file it opens is not on disk before it, and the
\* files that keep their path keep their content.
C26_FreshPath ==
    /\ current_filename_temp' # current_filename_temp =>
           current_filename_temp' \notin DOMAIN disk
    /\ \A f \in DOMAIN disk \cap DOMAIN disk' :
           /\ IsPrefix(disk[f].entries, disk'[f].entries)
           /\ disk[f].header => disk'[f].header

\* C26: the temp path chosen for a new file is never the path of a file that
\* is on disk from earlier in the run (a temp file kept after a failed
\* rename), so open(path, "w") never truncates what the run wrote before.
C26_NoTempPathReuse == [][C26_FreshPath]_vars

C26_Witness ==
    /\ FileIsOpen
    /\ current_filename_temp = TempName(2)
    /\ output_filenames = <<RenameFailedMarker(TempName(1))>>
    /\ TempName(1) \in DOMAIN disk
    /\ disk[TempName(1)].entries = <<1>>
    /\ disk[TempName(2)].entries = <<2>>

=============================================================================
